---- MODULE Spec2Model ----
(***************************************************************************)
(* Model of the gRPC service layer of nist-sp800-22-rev1a:                 *)
(* Server.RunTestSuite, Server.validateRequest and                         *)
(* calculatePValueUniformity (package service), together with the          *)
(* package variable runAllTests through which the handler reaches the      *)
(* test engine.                                                            *)
(*                                                                         *)
(* Numbers.  A p-value or a proportion is a float64 in the program; here   *)
(* it is an integer count of thousandths (500 is 0.5, 1000 is 1.0, -1000   *)
(* is the sentinel -1.0).  A quotient of two counts is kept as the pair    *)
(* [num, den].  Go's int is 64 bits wide and never overflows on the        *)
(* lengths used here; int32(len*8) is modelled by Int32OfBits.             *)
(*                                                                         *)
(* Pointers.  A Go pointer field that may be nil (an optional protobuf     *)
(* field, an entry of []*pb.Sp80022TestResult, the returned response) is   *)
(* a set with at most one element: {} is nil, {v} points to v.             *)
(***************************************************************************)
EXTENDS Integers, Sequences, FiniteSets, Bags, TLC

----------------------------------------------------------------------------
(* Program constants *)

\* nist.MinBits: the Universal test needs 387,840 bits
MinBits == 387840

\* nist.MaxBits: 10,000,000 bits
MaxBits == 10000000

\* Alpha = 0.01, in thousandths
Alpha == 10

\* const numBins = 10 in calculatePValueUniformity
numBins == 10

\* the engine runs the fifteen tests of SP 800-22
NumTests == 15

\* if len(pValues) >= 5: the least number of real p-values for the chi2
MinUniformity == 5

----------------------------------------------------------------------------
(* Bounds of the exploration *)

\* longest result list a substituted runAllTests returns
MaxResults == 2

\* RunTestSuite calls counted by requests_total before the model stops
MaxRequests == 2

----------------------------------------------------------------------------
(* Values *)

NoError == ""

Nil == {}

Ptr(v) == {v}

Deref(p) == CHOOSE v \in p : TRUE

\* len(req.Bitstream) * 8 in Go's 64-bit int.  The model's integers end at
\* 2^31 - 1; a product beyond that is represented by 2^31 - 1, which like
\* the product lies above MaxBits.
BitsOf(byteLen) ==
  IF byteLen > 268435455 THEN 2147483647 ELSE byteLen * 8

\* int32(len(req.Bitstream) * 8): the low 32 bits of the product, two's
\* complement (computed on the byte count, 2^29 bytes being 2^32 bits)
Int32OfBits(byteLen) ==
  LET r == byteLen % 536870912
  IN  IF r >= 268435456 THEN (r - 536870912) * 8 ELSE r * 8

\* int32(x) of a count of results.  The conversion keeps every value in
\* [-2^31, 2^31 - 1]; the counts, and all integers of the model, lie there.
\* (The one operand that may lie outside is len*8: see Int32OfBits.)
ToInt32(x) == x

\* len(req.Bitstream) of the requests explored: empty, the 10 bytes of the
\* tests, both sides of each limit, and 2^28 bytes, whose bit count does not
\* fit an int32
ByteLens ==
  { 0, 10,
    (MinBits \div 8) - 1, MinBits \div 8,
    MaxBits \div 8, (MaxBits \div 8) + 1,
    268435456 }

NoRequest == 0 - 1

----------------------------------------------------------------------------
(* The engine's result type nist.TestResult, as the handler reads it *)

TestResult(name, pValue, passed, proportion, warning) ==
  [ Name |-> name, PValue |-> pValue, Passed |-> passed,
    Proportion |-> proportion, Warning |-> warning ]

\* what a call of runAllTests returns: ([]nist.TestResult, error)
EngineReturn(results, err) == [ results |-> results, err |-> err ]

----------------------------------------------------------------------------
(* runAllTests = nist.RunAllTests.  The engine's code is described by the  *)
(* specification: fifteen results in a fixed order; a test that ran has a  *)
(* p-value in [0,1] and passed = (p-value >= alpha); a test that was       *)
(* skipped has p-value -1, passed = false and a warning.                   *)

TestNames ==
  << "Frequency", "BlockFrequency", "CumulativeSums", "Runs",
     "LongestRun", "Rank", "DFT", "NonOverlappingTemplate",
     "OverlappingTemplate", "Universal", "ApproximateEntropy",
     "RandomExcursions", "RandomExcursionsVariant", "Serial",
     "LinearComplexity" >>

\* p-values of the tests that ran: 0, just under alpha, alpha, 0.5, 1
NistPValues == << 0, 9, 10, 500, 1000 >>

NistSkipped(i) ==
  TestResult(TestNames[i], -1000, FALSE, 0, "insufficient data")

NistRan(i, p) ==
  TestResult(TestNames[i], p, p >= Alpha,
             IF i % 2 = 0 THEN 1000 - (p \div 2) ELSE 0,
             IF p = 0 THEN "degenerate input" ELSE "")

\* The bitstream decides which tests skip and what the others compute.  The
\* skipped tests explored are the runs lo..hi of the canonical order (so
\* every count 0..15 of skipped tests occurs), the p-values a rotation of
\* NistPValues.
NistRunAllTests ==
  { EngineReturn(
      [ i \in 1..NumTests |->
          IF lo <= i /\ i <= hi
          THEN NistSkipped(i)
          ELSE NistRan(i, NistPValues[((i + k) % Len(NistPValues)) + 1]) ],
      NoError)
    : lo \in 1..(NumTests + 1), hi \in 0..NumTests,
      k \in 0..(Len(NistPValues) - 1) }

----------------------------------------------------------------------------
(* nist.RunAllTests at work, as the specification describes it: one task   *)
(* per test on the compute units available, every test a pure function of  *)
(* the bitstream, all results joined in the canonical order before the     *)
(* call returns.                                                           *)

\* tasks of one engine run that compute side by side
MaxParallel == 2

\* a bitstream: its length in bytes and what it holds
Bitstream(byteLen, content) ==
  [ byteLen |-> byteLen, content |-> content ]

\* the bitstreams sent: the zero bytes of the service's tests, too short and
\* of the shortest valid length, and seeded pseudorandom bytes of the
\* shortest valid length
Bitstreams ==
  { Bitstream(10, "zeros"), Bitstream(MinBits \div 8, "zeros"),
    Bitstream(MinBits \div 8, "seeded") }

\* what test i computes on a bitstream of valid length, a function of the
\* bitstream alone: on zero bytes Frequency, Runs and LongestRun report
\* p-value 0 and the random-excursion tests find no cycle and skip; the other
\* p-values stand for whatever the test computes, on seeded bytes those of a
\* sequence on which every test runs and passes
NistTest(content, i) ==
  IF content = "zeros"
  THEN IF i \in { 1, 4, 5 } THEN NistRan(i, 0)
       ELSE IF i \in { 12, 13 } THEN NistSkipped(i)
       ELSE NistRan(i, NistPValues[(i % Len(NistPValues)) + 1])
  ELSE NistRan(i, NistPValues[(i % 3) + 3])

\* what the engine returns for a bitstream of valid length
NistRunOn(content) ==
  EngineReturn([ i \in 1..NumTests |-> NistTest(content, i) ], NoError)

\* an entry of the result list no test has written yet
NoResult == TestResult("", 0, FALSE, 0, "")

\* no engine run: content is what the bitstream of the call holds
NoEngineRun ==
  [ content |-> "", started |-> 0, running |-> {}, results |-> << >>,
    reordered |-> FALSE ]

\* the engine run a call begins on its bitstream: no task started, fifteen
\* entries to fill
StartEngine(content) ==
  [ content |-> content, started |-> 0, running |-> {},
    results |-> [ i \in 1..NumTests |-> NoResult ], reordered |-> FALSE ]

\* the task of the next test in the canonical order starts
TaskStartStep(e) ==
  [ e EXCEPT !.started = @ + 1, !.running = @ \cup { e.started + 1 } ]

\* the task of test i ends and appends its result to those collected so far
TaskDoneStep_Append(e, i) ==
  LET free == CHOOSE k \in 1..NumTests :
                /\ e.results[k] = NoResult
                /\ \A j \in 1..(k - 1) : e.results[j] # NoResult
  IN  [ e EXCEPT !.running = @ \ { i },
                 !.results[free] = NistTest(e.content, i),
                 !.reordered = @ \/ \E j \in e.running : j < i ]

\* the task of test i ends and stores its result at the place of test i;
\* reordered tells whether a task ended before one of an earlier test
TaskDoneStep(e, i) ==
  [ e EXCEPT !.running = @ \ { i },
             !.results[i] = NistTest(e.content, i),
             !.reordered = @ \/ \E j \in e.running : j < i ]

\* every task has ended
Joined(e) ==
  e.started = NumTests /\ e.running = {}

\* the engine returns the joined results
JoinStep(e) ==
  EngineReturn(e.results, NoError)

----------------------------------------------------------------------------
(* runAllTests reassigned (the variable exists "to allow mocking in        *)
(* tests"): any function of the type func([]byte) ([]TestResult, error).   *)

\* p-values a substituted engine returns: the sentinel, one under alpha, one
\* over it, and one above 1
MockPValues == { -1000, 5, 500, 1100 }

\* every combination of p-value, Passed flag and warning; the Proportion goes
\* with the Passed flag, as in the results the tests substitute
MockTestResults ==
  { TestResult(IF p < 0 THEN "SkippedTest" ELSE "ValidTest", p, b,
               IF b THEN 1000 ELSE 0, w)
    : p \in MockPValues, b \in BOOLEAN, w \in {"", "mock warning"} }

RECURSIVE SeqsUpTo(_, _)
SeqsUpTo(S, n) ==
  IF n = 0 THEN { << >> }
  ELSE LET shorter == SeqsUpTo(S, n - 1)
       IN  shorter \cup { Append(s, x) : s \in shorter, x \in S }

MockRunAllTests ==
  { EngineReturn(rs, NoError) : rs \in SeqsUpTo(MockTestResults, MaxResults) }
  \cup
  { EngineReturn(rs, "mock error") : rs \in SeqsUpTo(MockTestResults, 1) }

\* the outcomes of calling the function the variable runAllTests holds
CallRunAllTests(f) ==
  IF f = "nist.RunAllTests" THEN NistRunAllTests ELSE MockRunAllTests

----------------------------------------------------------------------------
(* Server.validateRequest: the error it returns, NoError for nil *)

\* validateRequest with the floor made exclusive (<= for <)
validateRequest_ExclusiveMin(byteLen) ==
  LET numBits == BitsOf(byteLen)
  IN  IF byteLen = 0 THEN "bitstream cannot be empty"
      ELSE IF numBits <= MinBits THEN "insufficient bits"
      ELSE IF numBits > MaxBits THEN "too many bits"
      ELSE NoError

\* validateRequest without the ceiling
validateRequest_NoMax(byteLen) ==
  LET numBits == BitsOf(byteLen)
  IN  IF byteLen = 0 THEN "bitstream cannot be empty"
      ELSE IF numBits < MinBits THEN "insufficient bits"
      ELSE NoError

validateRequest(byteLen) ==
  LET numBits == BitsOf(byteLen)
  IN  IF byteLen = 0 THEN "bitstream cannot be empty"
      ELSE IF numBits < MinBits THEN "insufficient bits"
      ELSE IF numBits > MaxBits THEN "too many bits"
      ELSE NoError

----------------------------------------------------------------------------
(* calculatePValueUniformity *)

\* a float64 the handler stores without computing on it: a constant num/den,
\* or mathext.GammaIncRegComp(df/2, chi2/2) for chi2 = num/den
Float(fn, num, den) == [ fn |-> fn, num |-> num, den |-> den ]

\* binIndex of a p-value the loop does not skip
binIndex(pval) ==
  LET b == (pval * numBins) \div 1000
  IN  IF b = numBins THEN numBins - 1 ELSE b

\* bins[b] after the distribution loop
bins(pValues) ==
  [ b \in 0..(numBins - 1) |->
      Cardinality({ j \in 1..Len(pValues) :
                      /\ ~(pValues[j] < 0 \/ pValues[j] > 1000)
                      /\ binIndex(pValues[j]) = b }) ]

\* expectedCount := float64(len(pValues)) / float64(numBins)
expectedCount(pValues) ==
  Float("const", Len(pValues), numBins)

RECURSIVE SumSquares(_, _, _)
\* sum over the bins b..numBins-1 of (numBins*observed - n)^2
SumSquares(observed, n, b) ==
  IF b = numBins THEN 0
  ELSE (numBins * observed[b] - n) * (numBins * observed[b] - n)
       + SumSquares(observed, n, b + 1)

\* chi2 = sum (observed - n/numBins)^2 / (n/numBins), with n = len(pValues),
\* is SumSquares / (numBins * n)
calculatePValueUniformity(pValues) ==
  IF Len(pValues) = 0 THEN Float("const", 0, 1)
  ELSE Float("GammaIncRegComp",
             SumSquares(bins(pValues), Len(pValues), 0),
             numBins * Len(pValues))

----------------------------------------------------------------------------
(* Server.RunTestSuite: the conversion loop *)

\* Warning / Proportion of a pb result: set only when non-empty / positive
OptWarning(result) ==
  IF result.Warning # "" THEN Ptr(result.Warning) ELSE Nil

OptProportion(result) ==
  IF result.Proportion > 0 THEN Ptr(result.Proportion) ELSE Nil

\* IsSkipped comparing with the sentinel instead of zero (< -1.0)
IsSkipped_BelowSentinel(result) == result.PValue < -1000

\* if result.PValue < 0.0
IsSkipped(result) == result.PValue < 0

\* SkippedResult copying the engine's Passed flag
SkippedResult_KeepPassed(result) ==
  [ Name |-> result.Name, PValue |-> result.PValue,
    Passed |-> result.Passed,
    Proportion |-> Nil, Warning |-> OptWarning(result) ]

\* the pb result of a skipped test
SkippedResult(result) ==
  [ Name |-> result.Name, PValue |-> result.PValue, Passed |-> FALSE,
    Proportion |-> Nil, Warning |-> OptWarning(result) ]

\* RealResult reporting every test that ran as passed
RealResult_PassedTrue(result) ==
  [ Name |-> result.Name, PValue |-> result.PValue, Passed |-> TRUE,
    Proportion |-> OptProportion(result), Warning |-> OptWarning(result) ]

\* the pb result of a real test result
RealResult(result) ==
  [ Name |-> result.Name, PValue |-> result.PValue,
    Passed |-> result.Passed,
    Proportion |-> OptProportion(result), Warning |-> OptWarning(result) ]

\* the locals before the loop: Results of len(results) nil entries
LoopInit(results) ==
  [ Results |-> [ i \in 1..Len(results) |-> Nil ],
    passedCount |-> 0, testsRun |-> 0, pValues |-> << >> ]

\* LoopBody that continues before storing a skipped result
LoopBody_SkipNotStored(acc, i, result) ==
  IF result.PValue < 0
  THEN acc
  ELSE [ Results |-> [ acc.Results EXCEPT ![i] = Ptr(RealResult(result)) ],
         passedCount |-> IF result.Passed THEN acc.passedCount + 1
                         ELSE acc.passedCount,
         testsRun |-> acc.testsRun + 1,
         pValues |-> Append(acc.pValues, result.PValue) ]

\* LoopBody that counts a passed result before it looks at the p-value
LoopBody_CountPassedFirst(acc, i, result) ==
  LET passed == IF result.Passed THEN acc.passedCount + 1
                ELSE acc.passedCount
  IN  IF result.PValue < 0
      THEN [ acc EXCEPT !.Results[i] = Ptr(SkippedResult(result)),
                        !.passedCount = passed ]
      ELSE [ Results |->
               [ acc.Results EXCEPT ![i] = Ptr(RealResult(result)) ],
             passedCount |-> passed,
             testsRun |-> acc.testsRun + 1,
             pValues |-> Append(acc.pValues, result.PValue) ]

\* LoopBody that packs the results of the tests that ran at the front
LoopBody_RealResultsPacked(acc, i, result) ==
  IF IsSkipped(result)
  THEN [ acc EXCEPT !.Results[i] = Ptr(SkippedResult(result)) ]
  ELSE [ Results |-> [ acc.Results EXCEPT ![acc.testsRun + 1] =
                                            Ptr(RealResult(result)) ],
         passedCount |-> IF result.Passed THEN acc.passedCount + 1
                         ELSE acc.passedCount,
         testsRun |-> acc.testsRun + 1,
         pValues |-> Append(acc.pValues, result.PValue) ]

\* one iteration of "for i, result := range results"
LoopBody(acc, i, result) ==
  IF IsSkipped(result)
  THEN [ acc EXCEPT !.Results[i] = Ptr(SkippedResult(result)) ]
  ELSE [ Results |-> [ acc.Results EXCEPT ![i] = Ptr(RealResult(result)) ],
         passedCount |-> IF result.Passed THEN acc.passedCount + 1
                         ELSE acc.passedCount,
         testsRun |-> acc.testsRun + 1,
         pValues |-> Append(acc.pValues, result.PValue) ]

RECURSIVE Loop(_, _, _)
\* the iterations i..len(results)
Loop(acc, i, results) ==
  IF i > Len(results) THEN acc
  ELSE Loop(LoopBody(acc, i, results[i]), i + 1, results)

\* response.OverallPassRate
OverallPassRate(passedCount, testsRun) ==
  IF testsRun > 0 THEN Float("const", passedCount, testsRun)
  ELSE Float("const", 0, 1)

\* PValueUniformityChi2 asking for more than five p-values (> for >=)
PValueUniformityChi2_MoreThanFive(pValues) ==
  IF Len(pValues) > MinUniformity THEN calculatePValueUniformity(pValues)
  ELSE Float("const", -1, 1)

\* response.PValueUniformityChi2
PValueUniformityChi2(pValues) ==
  IF Len(pValues) >= MinUniformity THEN calculatePValueUniformity(pValues)
  ELSE Float("const", -1, 1)

\* BuildResponse deriving tests_skipped from the passed count
BuildResponse_SkippedFromPassed(byteLen, results, acc) ==
  [ SampleSizeBits |-> Int32OfBits(byteLen),
    Results |-> acc.Results,
    OverallPassRate |-> OverallPassRate(acc.passedCount, acc.testsRun),
    TestsRun |-> ToInt32(acc.testsRun),
    TestsSkipped |-> ToInt32(Len(results) - acc.passedCount),
    TestsTotal |-> ToInt32(Len(results)),
    NistCompliant |-> (acc.testsRun = Len(results)),
    PValueUniformityChi2 |-> PValueUniformityChi2(acc.pValues) ]

\* BuildResponse calling the run compliant when every test that ran passed
BuildResponse_CompliantIfAllPassed(byteLen, results, acc) ==
  [ SampleSizeBits |-> Int32OfBits(byteLen),
    Results |-> acc.Results,
    OverallPassRate |-> OverallPassRate(acc.passedCount, acc.testsRun),
    TestsRun |-> ToInt32(acc.testsRun),
    TestsSkipped |-> ToInt32(Len(results) - acc.testsRun),
    TestsTotal |-> ToInt32(Len(results)),
    NistCompliant |-> (acc.passedCount = acc.testsRun),
    PValueUniformityChi2 |-> PValueUniformityChi2(acc.pValues) ]

\* the response built from a bitstream of byteLen bytes, the engine's
\* results and the loop's locals (Timestamp and ExecutionTimeMs, read from
\* the clock, are left out)
BuildResponse(byteLen, results, acc) ==
  [ SampleSizeBits |-> Int32OfBits(byteLen),
    Results |-> acc.Results,
    OverallPassRate |-> OverallPassRate(acc.passedCount, acc.testsRun),
    TestsRun |-> ToInt32(acc.testsRun),
    TestsSkipped |-> ToInt32(Len(results) - acc.testsRun),
    TestsTotal |-> ToInt32(Len(results)),
    NistCompliant |-> (acc.testsRun = Len(results)),
    PValueUniformityChi2 |-> PValueUniformityChi2(acc.pValues) ]

\* the locals of a call that returned before the loop
NoLocals == [ passedCount |-> 0, testsRun |-> 0, pValues |-> << >> ]

NoEngineReturn == EngineReturn(<< >>, NoError)

\* AfterEngine that drops the engine's error and builds the response
AfterEngine_IgnoreErr(byteLen, out) ==
  LET acc == Loop(LoopInit(out.results), 1, out.results)
  IN  [ status |-> "success", engineCalls |-> 1, engineOut |-> out,
        locals |-> [ passedCount |-> acc.passedCount,
                     testsRun |-> acc.testsRun,
                     pValues |-> acc.pValues ],
        response |-> Ptr(BuildResponse(byteLen, out.results, acc)),
        err |-> NoError ]

\* AfterEngine that counts a request the engine failed on as an error
AfterEngine_EngineErrorCounted(byteLen, out) ==
  IF out.err # NoError
  THEN [ status |-> "error", engineCalls |-> 1, engineOut |-> out,
         locals |-> NoLocals,
         response |-> Nil,
         err |-> "test execution failed: " \o out.err ]
  ELSE LET acc == Loop(LoopInit(out.results), 1, out.results)
       IN  [ status |-> "success", engineCalls |-> 1, engineOut |-> out,
             locals |-> [ passedCount |-> acc.passedCount,
                          testsRun |-> acc.testsRun,
                          pValues |-> acc.pValues ],
             response |-> Ptr(BuildResponse(byteLen, out.results, acc)),
             err |-> NoError ]

\* RunTestSuite from "results, err := runAllTests(req.Bitstream)", which
\* returned out, to its return: (nil, wrapped error) or (response, nil)
AfterEngine(byteLen, out) ==
  IF out.err # NoError
  THEN [ status |-> "success", engineCalls |-> 1, engineOut |-> out,
         locals |-> NoLocals,
         response |-> Nil,
         err |-> "test execution failed: " \o out.err ]
  ELSE LET acc == Loop(LoopInit(out.results), 1, out.results)
       IN  [ status |-> "success", engineCalls |-> 1, engineOut |-> out,
             locals |-> [ passedCount |-> acc.passedCount,
                          testsRun |-> acc.testsRun,
                          pValues |-> acc.pValues ],
             response |-> Ptr(BuildResponse(byteLen, out.results, acc)),
             err |-> NoError ]

\* Call that runs the engine first and validates the request afterwards
Call_EngineFirst(byteLen, f) ==
  { IF validateRequest(byteLen) # NoError
    THEN [ status |-> "error", engineCalls |-> 1, engineOut |-> out,
           locals |-> NoLocals, response |-> Nil,
           err |-> validateRequest(byteLen) ]
    ELSE AfterEngine(byteLen, out)
    : out \in CallRunAllTests(f) }

\* The executions of Server.RunTestSuite on a bitstream of byteLen bytes
\* while runAllTests holds f: the label it counts in requests_total, its
\* calls of runAllTests and what they returned, its locals, and the two
\* values it returns.
Call(byteLen, f) ==
  IF validateRequest(byteLen) # NoError
  THEN { [ status |-> "error", engineCalls |-> 0,
           engineOut |-> NoEngineReturn, locals |-> NoLocals,
           response |-> Nil, err |-> validateRequest(byteLen) ] }
  ELSE { AfterEngine(byteLen, out) : out \in CallRunAllTests(f) }

----------------------------------------------------------------------------
(* package config: strings are tuples of characters *)

\* the characters strconv reads as decimal digits
Digit ==
  { "0", "1", "2", "3", "4", "5", "6", "7", "8", "9" }

\* c - '0'
DigitVal(c) ==
  CASE c = "0" -> 0 [] c = "1" -> 1 [] c = "2" -> 2 [] c = "3" -> 3
    [] c = "4" -> 4 [] c = "5" -> 5 [] c = "6" -> 6 [] c = "7" -> 7
    [] c = "8" -> 8 [] c = "9" -> 9

\* the largest integer the model computes with; larger parsed values are
\* kept as this one (they are out of every range the code compares with)
IntSat == 2147483647

\* the decimal digits of 1<<63, the cutoff of a 64-bit int
Int64Cutoff ==
  << "9", "2", "2", "3", "3", "7", "2", "0", "3", "6",
     "8", "5", "4", "7", "7", "5", "8", "0", "8" >>

RECURSIVE StripZeros(_)
\* ds without its leading zeros
StripZeros(ds) ==
  IF ds # << >> /\ Head(ds) = "0" THEN StripZeros(Tail(ds)) ELSE ds

RECURSIVE DigitsLess(_, _)
\* a < b for digit strings of one length
DigitsLess(a, b) ==
  IF a = << >> THEN FALSE
  ELSE IF DigitVal(Head(a)) # DigitVal(Head(b))
       THEN DigitVal(Head(a)) < DigitVal(Head(b))
       ELSE DigitsLess(Tail(a), Tail(b))

\* the number written by the digits ds is below 1<<63
BelowCutoff(ds) ==
  LET sig == StripZeros(ds)
  IN  \/ Len(sig) < Len(Int64Cutoff)
      \/ Len(sig) = Len(Int64Cutoff) /\ DigitsLess(sig, Int64Cutoff)

RECURSIVE DigitsValue(_, _)
\* n*10 + digit over ds, from n
DigitsValue(ds, n) ==
  IF ds = << >> THEN n
  ELSE LET d == DigitVal(Head(ds))
       IN  DigitsValue(Tail(ds),
                       IF n > (IntSat - d) \div 10 THEN IntSat
                       ELSE n * 10 + d)

\* strconv.Atoi(s): an optional sign, then decimal digits only
Atoi(s) ==
  LET signed == s # << >> /\ Head(s) \in { "+", "-" }
      neg == s # << >> /\ Head(s) = "-"
      ds == IF signed THEN Tail(s) ELSE s
  IN  IF ds = << >> \/ \E i \in 1..Len(ds) : ds[i] \notin Digit
      THEN [ val |-> 0, err |-> "invalid syntax" ]
      ELSE IF ~BelowCutoff(ds) /\ ~(neg /\ StripZeros(ds) = Int64Cutoff)
      THEN [ val |-> IF neg THEN 0 - IntSat ELSE IntSat,
             err |-> "value out of range" ]
      ELSE [ val |-> IF neg THEN 0 - DigitsValue(ds, 0)
                     ELSE DigitsValue(ds, 0),
             err |-> NoError ]

\* strconv.ParseBool(s)
ParseBool(s) ==
  IF s \in { <<"1">>, <<"t">>, <<"T">>, <<"t", "r", "u", "e">>,
             <<"T", "R", "U", "E">>, <<"T", "r", "u", "e">> }
  THEN [ val |-> TRUE, err |-> NoError ]
  ELSE IF s \in { <<"0">>, <<"f">>, <<"F">>, <<"f", "a", "l", "s", "e">>,
                  <<"F", "A", "L", "S", "E">>, <<"F", "a", "l", "s", "e">> }
  THEN [ val |-> FALSE, err |-> NoError ]
  ELSE [ val |-> FALSE, err |-> "invalid syntax" ]

RECURSIVE Str(_)
\* the characters of s as one string, for messages
Str(s) ==
  IF s = << >> THEN "" ELSE Head(s) \o Str(Tail(s))

\* os.Getenv(key): the value of key, empty when key is not set
Getenv(e, key) ==
  IF e[key] = Nil THEN << >> ELSE Deref(e[key])

\* getEnvString(key, defaultValue)
getEnvString(e, key, defaultValue) ==
  IF Getenv(e, key) # << >> THEN Getenv(e, key) ELSE defaultValue

\* getEnvInt that returns what Atoi returned, error or not
getEnvInt_NoFallback(e, key, defaultValue) ==
  IF Getenv(e, key) # << >> THEN Atoi(Getenv(e, key)).val
  ELSE defaultValue

\* getEnvInt that also falls back on the default for a value below 1
getEnvInt_PositiveOnly(e, key, defaultValue) ==
  IF /\ Getenv(e, key) # << >>
     /\ Atoi(Getenv(e, key)).err = NoError
     /\ Atoi(Getenv(e, key)).val >= 1
  THEN Atoi(Getenv(e, key)).val
  ELSE defaultValue

\* getEnvInt(key, defaultValue)
getEnvInt(e, key, defaultValue) ==
  IF Getenv(e, key) # << >> /\ Atoi(Getenv(e, key)).err = NoError
  THEN Atoi(Getenv(e, key)).val
  ELSE defaultValue

\* getEnvBool(key, defaultValue)
getEnvBool(e, key, defaultValue) ==
  IF Getenv(e, key) # << >> /\ ParseBool(Getenv(e, key)).err = NoError
  THEN ParseBool(Getenv(e, key)).val
  ELSE defaultValue

\* validLogLevels
validLogLevels ==
  { <<"d", "e", "b", "u", "g">>, <<"i", "n", "f", "o">>,
    <<"w", "a", "r", "n">>, <<"e", "r", "r", "o", "r">> }

\* Validate with the upper port limit made exclusive (>= for >)
Validate_PortExclusive(c) ==
  [ c |-> c,
    err |->
      IF c.GRPCPort < 1 \/ c.GRPCPort >= 65535
      THEN "invalid GRPC_PORT: " \o ToString(c.GRPCPort)
             \o " (must be 1-65535)"
      ELSE IF c.MetricsPort < 1 \/ c.MetricsPort >= 65535
      THEN "invalid METRICS_PORT: " \o ToString(c.MetricsPort)
             \o " (must be 1-65535)"
      ELSE IF c.LogLevel \notin validLogLevels
      THEN "invalid LOG_LEVEL: " \o Str(c.LogLevel)
             \o " (must be debug/info/warn/error)"
      ELSE IF c.AuthEnabled /\ c.AuthIssuer = << >>
      THEN "invalid AUTH_ISSUER: required when AUTH_ENABLED=true"
      ELSE IF c.AuthEnabled /\ c.AuthAudience = << >>
      THEN "invalid AUTH_AUDIENCE: required when AUTH_ENABLED=true"
      ELSE NoError ]

\* (c *Config).Validate(): the Config it leaves behind its pointer and the
\* error it returns
Validate(c) ==
  [ c |-> c,
    err |->
      IF c.GRPCPort < 1 \/ c.GRPCPort > 65535
      THEN "invalid GRPC_PORT: " \o ToString(c.GRPCPort)
             \o " (must be 1-65535)"
      ELSE IF c.MetricsPort < 1 \/ c.MetricsPort > 65535
      THEN "invalid METRICS_PORT: " \o ToString(c.MetricsPort)
             \o " (must be 1-65535)"
      ELSE IF c.LogLevel \notin validLogLevels
      THEN "invalid LOG_LEVEL: " \o Str(c.LogLevel)
             \o " (must be debug/info/warn/error)"
      ELSE IF c.AuthEnabled /\ c.AuthIssuer = << >>
      THEN "invalid AUTH_ISSUER: required when AUTH_ENABLED=true"
      ELSE IF c.AuthEnabled /\ c.AuthAudience = << >>
      THEN "invalid AUTH_AUDIENCE: required when AUTH_ENABLED=true"
      ELSE NoError ]

\* cfg := &Config{...} of Load
LoadedConfig(e) ==
  [ GRPCPort |-> getEnvInt(e, "GRPC_PORT", 9090),
    MetricsPort |-> getEnvInt(e, "METRICS_PORT", 9091),
    LogLevel |-> getEnvString(e, "LOG_LEVEL", <<"i", "n", "f", "o">>),
    AuthEnabled |-> getEnvBool(e, "AUTH_ENABLED", FALSE),
    AuthIssuer |-> getEnvString(e, "AUTH_ISSUER", << >>),
    AuthAudience |-> getEnvString(e, "AUTH_AUDIENCE", << >>),
    AuthJWKSURL |-> getEnvString(e, "AUTH_JWKS_URL", << >>) ]

\* Load that returns the Config it built together with the error
Load_ConfigWithError(e) ==
  LET v == Validate(LoadedConfig(e))
  IN  [ built |-> LoadedConfig(e), validated |-> v,
        cfg |-> Ptr(v.c),
        err |-> IF v.err # NoError
                THEN "invalid configuration: " \o v.err ELSE NoError ]

\* Load(): the Config it built, what Validate made of it, and the two values
\* Load returns
Load(e) ==
  LET v == Validate(LoadedConfig(e))
  IN  IF v.err # NoError
      THEN [ built |-> LoadedConfig(e), validated |-> v,
             cfg |-> Nil, err |-> "invalid configuration: " \o v.err ]
      ELSE [ built |-> LoadedConfig(e), validated |-> v,
             cfg |-> Ptr(v.c), err |-> NoError ]

\* the environment variables Load reads
EnvKeys ==
  { "GRPC_PORT", "METRICS_PORT", "LOG_LEVEL", "AUTH_ENABLED", "AUTH_ISSUER",
    "AUTH_AUDIENCE", "AUTH_JWKS_URL" }

\* the values given to a variable
EnvValues(key) ==
  CASE key = "GRPC_PORT" ->
         { << >>, <<"5", "0", "0", "0">>, <<"0">>, <<"-", "1">>,
           <<"6", "5", "5", "3", "5">>, <<"6", "5", "5", "3", "6">>,
           <<"n", "o", "t", "a", "n", "i", "n", "t">> }
    [] key = "METRICS_PORT" ->
         { << >>, <<"6", "0", "0", "0">>, <<"7", "0", "0", "0", "0">>,
           <<"1", "2", "x">> }
    [] key = "LOG_LEVEL" ->
         { << >>, <<"d", "e", "b", "u", "g">>,
           <<"v", "e", "r", "b", "o", "s", "e">> }
    [] key = "AUTH_ENABLED" ->
         { << >>, <<"t", "r", "u", "e">>, <<"0">>, <<"y", "e", "s">> }
    [] key = "AUTH_ISSUER" -> { << >>, <<"i", "s", "s">> }
    [] key = "AUTH_AUDIENCE" -> { << >>, <<"a", "p", "i">> }
    [] key = "AUTH_JWKS_URL" -> { <<"j", "w", "k", "s">> }

\* no call of Load has returned
NoLoad == [ called |-> FALSE ]

----------------------------------------------------------------------------
(* package main: run, its goroutines and the servers it owns, as steps on
   one record m *)

\* in-flight RPCs the model follows at one time
MaxInflight == 1

\* the ports a test may hold with a listener of its own
TestPorts ==
  { 5000, 9090 }

\* the process before run is called
NoRun ==
  [ alive |-> TRUE,           \* FALSE once a signal has ended the process
    runPc |-> "init",         \* the statement run executes next
    runErr |-> NoError,       \* what run returned, once runPc = "done"
    runCfg |-> Nil,           \* cfg
    tlsEnabled |-> FALSE,     \* cfg.TLSEnabled
    defers |-> << >>,         \* run's deferred calls, the last one first
    busy |-> {},              \* ports bound outside run
    parentCancelled |-> FALSE,\* the caller cancelled run's ctx
    cancelCalled |-> FALSE,   \* cancel() of the derived ctx was called
    notified |-> FALSE,       \* signal.Notify(sigChan, ...) has run
    sigChan |-> 0,            \* signals buffered in sigChan (capacity 1)
    signalled |-> FALSE,      \* a signal was sent to the process
    shutPc |-> "none",        \* the shutdown goroutine
    shutdownBy |-> "none",    \* the case its select took
    grpcSrv |-> "none",       \* grpcServer
    grpcLn |-> "none",        \* grpcLn
    grpcServed |-> FALSE,     \* grpcServer has accepted on grpcLn
    metricsSrv |-> "none",    \* srv of startMetricsServer
    metricsLn |-> "none",     \* metricsLn
    metricsPc |-> "none",     \* the goroutine of startMetricsServer
    metricsServed |-> FALSE,  \* srv has accepted on metricsLn
    accepting |-> FALSE,      \* grpcServer takes up new RPCs
    rpcs |-> EmptyBag ]       \* the RPCs grpcServer holds, each with its pc

\* <-ctx.Done() of the derived context is ready
ctxDone(m) ==
  m.parentCancelled \/ m.cancelCalled

\* net.Listen("tcp", ":port") succeeds: nobody holds the port
Bindable(m, port) ==
  /\ port \notin m.busy
  /\ ~(m.metricsLn = "open" /\ port = Deref(m.runCfg).MetricsPort)
  /\ ~(m.grpcLn = "open" /\ port = Deref(m.runCfg).GRPCPort)

\* metricsSrv.Close() up to its wait: the server is marked shut down and
\* closes the listener it serves on; a listener not yet handed to Serve is
\* closed by Serve itself
HTTPClose(m) ==
  [ m EXCEPT !.metricsSrv = "closed",
             !.metricsLn = IF m.metricsSrv = "serving" THEN "closed" ELSE @ ]

\* the wait of metricsSrv.Close() is over: no goroutine is inside the accept
\* loop of srv.Serve
HTTPCloseReady(m) ==
  m.metricsPc # "serving"

\* a deferred call has returned: the next one follows, or run has returned
DeferDone(m) ==
  [ m EXCEPT !.defers = Tail(@),
             !.runPc = IF Tail(m.defers) = << >> THEN "done" ELSE "defer" ]

\* the deferred call that is due begins: cancel() is over at once,
\* metricsSrv.Close() goes on to wait
DeferStep(m) ==
  IF Head(m.defers) = "metricsSrv.Close"
  THEN [ HTTPClose(m) EXCEPT !.runPc = "Close" ]
  ELSE DeferDone([ m EXCEPT !.cancelCalled = TRUE ])

\* metricsSrv.Close() returns
CloseReturnStep(m) ==
  DeferDone(m)

\* a return of run that skips the deferred calls
RunReturn_NoDefers(m, e) ==
  [ m EXCEPT !.runPc = "done", !.runErr = e, !.defers = << >> ]

\* return e: the result is set; the deferred calls, if any, are due
RunReturn(m, e) ==
  [ m EXCEPT !.runErr = e,
             !.runPc = IF m.defers = << >> THEN "done" ELSE "defer" ]

\* run that carries on with the Config it could not validate
LoadStep_IgnoreError(m, l) ==
  [ m EXCEPT !.runCfg = Ptr(l.built), !.runPc = "ListenMetrics" ]

\* cfg, err := config.Load() ... setupLogging(cfg.LogLevel), l being what
\* Load did
LoadStep(m, l) ==
  IF l.err # NoError
  THEN RunReturn(m, "failed to load configuration: " \o l.err)
  ELSE [ m EXCEPT !.runCfg = l.cfg, !.runPc = "ListenMetrics" ]

\* metricsLn, err := net.Listen("tcp", ":<MetricsPort>")
ListenMetricsStep(m) ==
  IF ~Bindable(m, Deref(m.runCfg).MetricsPort)
  THEN RunReturn(m, "failed to create metrics listener: "
                      \o "bind: address already in use")
  ELSE [ m EXCEPT !.metricsLn = "open", !.runPc = "StartMetrics" ]

\* metricsSrv := startMetricsServer(metricsLn); defer metricsSrv.Close()
StartMetricsStep(m) ==
  [ m EXCEPT !.metricsSrv = "new", !.metricsPc = "spawned",
             !.defers = << "metricsSrv.Close" >> \o @,
             !.runPc = "ListenGRPC" ]

\* grpcLn, err := net.Listen("tcp", ":<GRPCPort>")
ListenGRPCStep(m) ==
  IF ~Bindable(m, Deref(m.runCfg).GRPCPort)
  THEN RunReturn(m, "failed to create gRPC listener: "
                      \o "bind: address already in use")
  ELSE [ m EXCEPT !.grpcLn = "open", !.runPc = "BuildInterceptors" ]

\* unaryInterceptors, err := buildUnaryInterceptors(cfg), built telling
\* whether validatorBuilder.Build() succeeded
BuildInterceptorsStep(m, built) ==
  IF Deref(m.runCfg).AuthEnabled /\ ~built
  THEN RunReturn(m, "failed to configure gRPC server: "
                      \o "failed to build auth validator")
  ELSE [ m EXCEPT !.runPc = "NewServer" ]

\* the errors buildGRPCServerOptions returns, NoError for none
TLSErrors ==
  { NoError, "invalid TLS client auth setting", "invalid TLS min version",
    "failed to configure TLS" }

\* buildGRPCServerOptions(cfg, unaryInterceptors), tls being what the TLS
\* settings of cfg lead to: the error it returns
buildGRPCServerOptions(m, tls) ==
  IF ~m.tlsEnabled THEN NoError ELSE tls

\* grpcServer, err := runGRPCServer(cfg, unaryInterceptors)
NewServerStep(m, tls) ==
  IF buildGRPCServerOptions(m, tls) # NoError
  THEN RunReturn(m, "failed to create gRPC server: "
                      \o buildGRPCServerOptions(m, tls))
  ELSE [ m EXCEPT !.grpcSrv = "new", !.runPc = "GoShutdown" ]

\* ctx, cancel := context.WithCancel(ctx); defer cancel(); go func() {...}()
GoShutdownStep(m) ==
  [ m EXCEPT !.defers = << "cancel" >> \o @, !.shutPc = "Notify",
             !.runPc = "Serve" ]

\* grpcServer.Serve(grpcLn) is entered: a server already stopped closes the
\* listener and returns ErrServerStopped, any other starts to accept
ServeStep(m) ==
  IF m.grpcSrv # "new"
  THEN RunReturn([ m EXCEPT !.grpcLn = "closed" ],
                 "failed to serve: grpc: the server has been stopped")
  ELSE [ m EXCEPT !.grpcSrv = "serving", !.grpcServed = TRUE,
                  !.accepting = TRUE, !.runPc = "Serving" ]

\* Serve returns nil when GracefulStop has completed; return nil
ServeReturnStep(m) ==
  RunReturn(m, NoError)

\* signal.Notify(sigChan, os.Interrupt, syscall.SIGTERM)
NotifyStep(m) ==
  [ m EXCEPT !.notified = TRUE, !.shutPc = "select" ]

\* the cases of the goroutine's select that are ready
SelectReady(m) ==
  { c \in { "signal", "ctx" } :
      \/ c = "signal" /\ m.sigChan > 0
      \/ c = "ctx" /\ ctxDone(m) }

\* select { case <-sigChan: ... case <-ctx.Done(): }, taking the ready case c
SelectStep(m, c) ==
  [ m EXCEPT !.sigChan = IF c = "signal" THEN @ - 1 ELSE @,
             !.shutdownBy = c, !.shutPc = "GracefulStop" ]

\* grpcServer.GracefulStop() begins: the server closes the listener it
\* serves on and tells its connections to go away; until they have, an RPC
\* of a connection already made is still taken up
GracefulStopBeginStep(m) ==
  [ m EXCEPT !.grpcSrv = "draining",
             !.grpcLn = IF m.grpcSrv = "serving" THEN "closed" ELSE @,
             !.shutPc = "draining" ]

\* the connections of a server that drains take no new RPC any more
GoAwayStep(m) ==
  [ m EXCEPT !.accepting = FALSE ]

\* grpcServer.GracefulStop() returns: no RPC is pending any more
GracefulStopEndStep(m) ==
  [ m EXCEPT !.grpcSrv = "stopped", !.accepting = FALSE,
             !.shutPc = "cancel" ]

\* cancel() of the goroutine, its last statement
ShutCancelStep(m) ==
  [ m EXCEPT !.cancelCalled = TRUE, !.shutPc = "done" ]

\* srv.Serve(ln) is entered: a server already closed closes ln and returns
\* ErrServerClosed, any other serves on ln
MetricsServeStep(m) ==
  IF m.metricsSrv = "closed"
  THEN [ m EXCEPT !.metricsLn = "closed", !.metricsPc = "done" ]
  ELSE [ m EXCEPT !.metricsSrv = "serving", !.metricsServed = TRUE,
                  !.metricsPc = "serving" ]

\* srv.Serve(ln) of a server that was closed leaves its accept loop
MetricsLeaveStep(m) ==
  [ m EXCEPT !.metricsPc = "left" ]

\* srv.Serve(ln) has returned ErrServerClosed: the goroutine ends
MetricsEndStep(m) ==
  [ m EXCEPT !.metricsPc = "done" ]

\* the methods of the services runGRPCServer registers
Methods ==
  { "RunTestSuite", "Health/Check", "Health/Watch", "ServerReflectionInfo" }

\* those that are streams: no unary interceptor runs, and the handler
\* returns when the client ends the stream
StreamMethods ==
  { "Health/Watch", "ServerReflectionInfo" }

\* grpcserver.WithExemptMethods(...)
ExemptMethods ==
  { "Health/Check", "Health/Watch" }

\* the largest message the server receives: no option sets it, so 4 MiB
MaxRecvMsgSize == 4194304

\* bytes of the varint encoding of n
VarintLen(n) ==
  IF n < 128 THEN 1
  ELSE IF n < 16384 THEN 2
  ELSE IF n < 2097152 THEN 3
  ELSE IF n < 268435456 THEN 4
  ELSE 5

\* bytes of the encoded Sp80022TestRequest with a bitstream of byteLen
\* bytes: field tag, length, bitstream; an empty field is left out
MessageSize(byteLen) ==
  IF byteLen = 0 THEN 0 ELSE 1 + VarintLen(byteLen) + byteLen

\* RPCs the gRPC server holds
Inflight(m) ==
  BagCardinality(m.rpcs)

\* an RPC of a method and where it is: "received" (its headers are),
\* "message" (its request message is too), "refused", "rejected", "handler"
\* or "streaming"
RPC(method, rpcPc) ==
  [ method |-> method, pc |-> rpcPc ]

\* the server takes up an RPC of a method
AcceptStep(m, method) ==
  [ m EXCEPT !.rpcs = @ (+) SetToBag({ RPC(method, "received") }) ]

\* the client has sent the request message of the RPC r
SendStep(m, r) ==
  [ m EXCEPT !.rpcs = (@ (-) SetToBag({ r }))
                        (+) SetToBag({ RPC(r.method, "message") }) ]

\* the RPC r can be served: the stream of reflection as soon as it is taken
\* up, any other once its request message is there
Servable(r) ==
  IF r.method = "ServerReflectionInfo" THEN r.pc = "received"
  ELSE r.pc = "message"

\* where an RPC that can be served goes, byteLen being the length of its
\* bitstream and token whether it carries a valid token: a message too large
\* is refused, the auth interceptor rejects a call without a valid token,
\* any other reaches the handler
Dispatch(m, method, byteLen, token) ==
  IF method \in StreamMethods THEN "streaming"
  ELSE IF method = "RunTestSuite" /\ MessageSize(byteLen) > MaxRecvMsgSize
  THEN "refused"
  ELSE IF /\ Deref(m.runCfg).AuthEnabled
          /\ method \notin ExemptMethods
          /\ ~token
  THEN "rejected"
  ELSE "handler"

\* the message of the RPC r is read and the RPC goes through the
\* interceptors to its handler
HandleStep(m, r, byteLen, token) ==
  [ m EXCEPT !.rpcs = (@ (-) SetToBag({ r }))
                        (+) SetToBag({ RPC(r.method,
                                           Dispatch(m, r.method, byteLen,
                                                    token)) }) ]

\* the RPC r is over: its status has been sent
EndStep(m, r) ==
  [ m EXCEPT !.rpcs = @ (-) SetToBag({ r }) ]

\* the handler of a RunTestSuite RPC with a bitstream of byteLen bytes, from
\* its entry to the increment of requests_total: the label it counts
RPCStatus(byteLen) ==
  IF validateRequest(byteLen) # NoError THEN "error" ELSE "success"

\* SIGTERM or Interrupt reaches the process: relayed to sigChan (dropped
\* when it is full) once Notify has run, fatal to the process before
SignalStep(m) ==
  IF m.notified
  THEN [ m EXCEPT !.signalled = TRUE,
                  !.sigChan = IF @ < 1 THEN @ + 1 ELSE @ ]
  ELSE [ m EXCEPT !.signalled = TRUE, !.alive = FALSE ]

----------------------------------------------------------------------------
(* loggingInterceptor *)

\* the request ids a context carries, "" for none
RequestIDs ==
  { "", "id-1", "id-2" }

\* the requests handed to the interceptor
Requests ==
  { "test request", "req", "" }

\* info.FullMethod
FullMethods ==
  { "/test.Service/Method", "/nist.Sp80022TestService/RunTestSuite" }

\* the handlers wrapped
Handlers ==
  { "test response", "handler error", "echo", "request id", "partial",
    "nothing" }

\* handler(ctx, req): (interface{}, error), Nil for a nil response
Handle(handler, ctx, req) ==
  CASE handler = "test response" ->
         [ resp |-> Ptr("test response"), err |-> NoError ]
    [] handler = "handler error" ->
         [ resp |-> Nil, err |-> "handler error" ]
    [] handler = "echo" ->
         [ resp |-> Ptr(req), err |-> NoError ]
    [] handler = "request id" ->
         [ resp |-> Ptr(ctx.requestID), err |-> NoError ]
    [] handler = "partial" ->
         [ resp |-> Ptr("partial response"), err |-> "handler error" ]
    [] handler = "nothing" ->
         [ resp |-> Nil, err |-> NoError ]

\* loggingInterceptor returning no response next to an error
loggingInterceptor_NilOnError(ctx, req, info, handler) ==
  LET out == Handle(handler, ctx, req)
  IN  [ handlerCalls |-> << [ ctx |-> ctx, req |-> req ] >>,
        logged |-> [ level |-> IF out.err # NoError THEN "error"
                               ELSE "debug",
                     request_id |-> ctx.requestID,
                     method |-> info.FullMethod ],
        resp |-> IF out.err # NoError THEN Nil ELSE out.resp,
        err |-> out.err ]

\* loggingInterceptor(ctx, req, info, handler): the calls it made of the
\* handler, the line it logged and the two values it returns
loggingInterceptor(ctx, req, info, handler) ==
  LET out == Handle(handler, ctx, req)
  IN  [ handlerCalls |-> << [ ctx |-> ctx, req |-> req ] >>,
        logged |-> [ level |-> IF out.err # NoError THEN "error"
                               ELSE "debug",
                     request_id |-> ctx.requestID,
                     method |-> info.FullMethod ],
        resp |-> out.resp,
        err |-> out.err ]

\* loggingInterceptor has not been called
NoIntercept == [ called |-> FALSE ]

\* calculatePValueUniformity has not been called
NoUniformity == [ called |-> FALSE ]

\* no call of RunTestSuite is in progress
NoCalls == << >>

----------------------------------------------------------------------------
(* State *)

VARIABLES
  runAllTests,    \* the package variable: the function the handler calls
  requestsTotal,  \* metrics.RequestsTotal{"RunTestSuite", status}
  pc,             \* "idle", or "returned" when a call has returned
  bitstreamLen,   \* len(req.Bitstream) of the call, NoRequest when idle
  engineCalls,    \* how often the call invoked runAllTests
  engineOut,      \* what runAllTests returned to the call
  locals,         \* passedCount, testsRun and pValues when the call returned
  response,       \* the call's first return value (a pointer)
  err,            \* the call's second return value (NoError for nil)
  prev,           \* what a caller kept of an earlier call, NoPrev if nothing
  env,            \* the process environment: Nil for a variable not set
  loaded,         \* what a call of config.Load did, NoLoad before it
  proc,           \* the server process: run and its goroutines
  intercepted,    \* what a call of loggingInterceptor did
  uniformity,     \* what a call of calculatePValueUniformity did
  calls,          \* the calls of RunTestSuite in progress side by side
  engine          \* the engine run of the call followed task by task

\* the variables of the functions called on their own
unitVars ==
  << intercepted, uniformity, calls, engine >>

\* the variables outside the handler's own
restVars ==
  << prev, env, loaded, proc, unitVars >>

vars ==
  << runAllTests, requestsTotal, pc, bitstreamLen, engineCalls, engineOut,
     locals, response, err, restVars >>

callVars ==
  << bitstreamLen, engineCalls, engineOut, locals, response, err >>

\* the handler's variables
serviceVars ==
  << runAllTests, requestsTotal, pc, callVars, prev >>

\* no call has been kept
NoPrev == [ kept |-> FALSE ]

Init ==
  /\ runAllTests = "nist.RunAllTests"
  /\ requestsTotal = [ status \in {"success", "error"} |-> 0 ]
  /\ pc = "idle"
  /\ bitstreamLen = NoRequest
  /\ engineCalls = 0
  /\ engineOut = NoEngineReturn
  /\ locals = NoLocals
  /\ response = Nil
  /\ err = NoError
  /\ prev = NoPrev
  /\ env = [ key \in EnvKeys |-> Nil ]
  /\ loaded = NoLoad
  /\ proc = NoRun
  /\ intercepted = NoIntercept
  /\ uniformity = NoUniformity
  /\ calls = NoCalls
  /\ engine = NoEngineRun

\* one call of Server.RunTestSuite, from its first line to its return
RunTestSuite ==
  /\ pc = "idle"
  /\ requestsTotal["success"] + requestsTotal["error"] < MaxRequests
  /\ \E byteLen \in ByteLens :
       \E c \in Call(byteLen, runAllTests) :
         /\ bitstreamLen' = byteLen
         /\ requestsTotal' = [ requestsTotal EXCEPT ![c.status] = @ + 1 ]
         /\ engineCalls' = c.engineCalls
         /\ engineOut' = c.engineOut
         /\ locals' = c.locals
         /\ response' = c.response
         /\ err' = c.err
  /\ pc' = "returned"
  /\ UNCHANGED << runAllTests, restVars >>

\* the caller has taken the return values; the server awaits the next call
Return ==
  /\ pc = "returned"
  /\ pc' = "idle"
  /\ bitstreamLen' = NoRequest
  /\ engineCalls' = 0
  /\ engineOut' = NoEngineReturn
  /\ locals' = NoLocals
  /\ response' = Nil
  /\ err' = NoError
  /\ UNCHANGED << runAllTests, requestsTotal, restVars >>

\* runAllTests = func(bitstream []byte) ([]nist.TestResult, error) {...}
SetRunAllTests ==
  /\ pc = "idle"
  /\ runAllTests = "nist.RunAllTests"
  /\ runAllTests' = "mock"
  /\ UNCHANGED << requestsTotal, pc, callVars, restVars >>

\* defer func() { runAllTests = orig }()
RestoreRunAllTests ==
  /\ pc = "idle"
  /\ runAllTests = "mock"
  /\ runAllTests' = "nist.RunAllTests"
  /\ UNCHANGED << requestsTotal, pc, callVars, restVars >>

Next ==
  \/ RunTestSuite
  \/ Return
  \/ SetRunAllTests
  \/ RestoreRunAllTests

\* the service with runAllTests open to reassignment
Spec == Init /\ [][Next]_vars

NextNist ==
  \/ RunTestSuite
  \/ Return

\* the service as deployed: runAllTests stays nist.RunAllTests
SpecNist == Init /\ [][NextNist]_vars

\* a call of Server.RunTestSuite begins: validateRequest, the increment of
\* requests_total, and the call of runAllTests when the request is valid
DetEnter ==
  /\ pc = "idle"
  /\ runAllTests = "nist.RunAllTests"
  /\ requestsTotal["success"] + requestsTotal["error"] < MaxRequests
  /\ \E b \in Bitstreams :
       /\ bitstreamLen' = b.byteLen
       /\ IF validateRequest(b.byteLen) # NoError
          THEN /\ requestsTotal' = [ requestsTotal EXCEPT !["error"] = @ + 1 ]
               /\ engineCalls' = 0
               /\ engine' = [ NoEngineRun EXCEPT !.content = b.content ]
               /\ err' = validateRequest(b.byteLen)
               /\ pc' = "returned"
          ELSE /\ requestsTotal' =
                    [ requestsTotal EXCEPT !["success"] = @ + 1 ]
               /\ engineCalls' = 1
               /\ engine' = StartEngine(b.content)
               /\ err' = NoError
               /\ pc' = "engine"
  /\ UNCHANGED << runAllTests, engineOut, locals, response, prev, env, loaded,
                  proc, intercepted, uniformity, calls >>

\* a compute unit is free: the task of the next test starts
DetTaskStart ==
  /\ pc = "engine"
  /\ engine.started < NumTests
  /\ Cardinality(engine.running) < MaxParallel
  /\ engine' = TaskStartStep(engine)
  /\ UNCHANGED << serviceVars, env, loaded, proc, intercepted, uniformity,
                  calls >>

\* one of the tasks at work ends
DetTaskDone ==
  /\ pc = "engine"
  /\ \E i \in engine.running : engine' = TaskDoneStep(engine, i)
  /\ UNCHANGED << serviceVars, env, loaded, proc, intercepted, uniformity,
                  calls >>

\* runAllTests returns the joined results; the handler converts them and
\* returns
DetFinish ==
  /\ pc = "engine"
  /\ Joined(engine)
  /\ LET c == AfterEngine(bitstreamLen, JoinStep(engine))
     IN  /\ engineOut' = c.engineOut
         /\ locals' = c.locals
         /\ response' = c.response
         /\ err' = c.err
  /\ pc' = "returned"
  /\ UNCHANGED << runAllTests, requestsTotal, bitstreamLen, engineCalls, prev,
                  env, loaded, proc, unitVars >>

\* resp, err := s.RunTestSuite(...): the caller keeps the request and what
\* came back (timestamp and execution time are not modelled), and the server
\* awaits the next call
ReturnKept ==
  /\ pc = "returned"
  /\ prev' = [ kept |-> TRUE, bitstreamLen |-> bitstreamLen,
               content |-> engine.content, reordered |-> engine.reordered,
               response |-> response, err |-> err ]
  /\ pc' = "idle"
  /\ bitstreamLen' = NoRequest
  /\ engineCalls' = 0
  /\ engineOut' = NoEngineReturn
  /\ locals' = NoLocals
  /\ response' = Nil
  /\ err' = NoError
  /\ engine' = NoEngineRun
  /\ UNCHANGED << runAllTests, requestsTotal, env, loaded, proc, intercepted,
                  uniformity, calls >>

NextDet ==
  \/ DetEnter
  \/ DetTaskStart
  \/ DetTaskDone
  \/ DetFinish
  \/ ReturnKept

\* the deployed service called again and again, the engine's tasks followed
\* one by one
SpecDet == Init /\ [][NextDet]_vars

\* t.Setenv(key, value)
Setenv ==
  /\ ~loaded.called
  /\ \E key \in EnvKeys :
       \E value \in EnvValues(key) :
         env' = [ env EXCEPT ![key] = Ptr(value) ]
  /\ UNCHANGED << loaded, proc, serviceVars, unitVars >>

\* cfg, err := Load()
LoadConfig ==
  /\ ~loaded.called
  /\ loaded' = [ called |-> TRUE ] @@ Load(env)
  /\ UNCHANGED << env, proc, serviceVars, unitVars >>

NextConfig ==
  \/ Setenv
  \/ LoadConfig

\* package config under the environments its tests set up
SpecConfig == Init /\ [][NextConfig]_vars

\* the values main_test.go gives to a variable before it calls run
RunEnvValues(key) ==
  CASE key = "GRPC_PORT" -> { <<"-", "1">>, <<"5", "0", "0", "0">> }
    [] key = "METRICS_PORT" -> { <<"5", "0", "0", "0">>,
                                 <<"6", "0", "0", "0">> }

\* os.Setenv("GRPC_PORT", ...), os.Setenv("METRICS_PORT", ...)
SetenvRun ==
  /\ proc.runPc = "init"
  /\ \E key \in { "GRPC_PORT", "METRICS_PORT" } :
       \E value \in RunEnvValues(key) :
         env' = [ env EXCEPT ![key] = Ptr(value) ]
  /\ UNCHANGED << proc, loaded, serviceVars, unitVars >>

\* a deployment with TLS: cfg.TLSEnabled is set
EnableTLS ==
  /\ proc.runPc = "init"
  /\ ~proc.tlsEnabled
  /\ proc' = [ proc EXCEPT !.tlsEnabled = TRUE ]
  /\ UNCHANGED << env, loaded, serviceVars, unitVars >>

\* the environment of a deployment with authentication
SetenvAuth ==
  /\ proc.runPc = "init"
  /\ env' = [ env EXCEPT !["AUTH_ENABLED"] = Ptr(<<"t", "r", "u", "e">>),
                         !["AUTH_ISSUER"] = Ptr(<<"i", "s", "s">>),
                         !["AUTH_AUDIENCE"] = Ptr(<<"a", "p", "i">>) ]
  /\ UNCHANGED << proc, loaded, serviceVars, unitVars >>

\* l := mustListen(t): the test holds a port while run is called
ListenElsewhere ==
  /\ proc.runPc = "init"
  /\ proc.busy = {}
  /\ \E port \in TestPorts : proc' = [ proc EXCEPT !.busy = { port } ]
  /\ UNCHANGED << env, loaded, serviceVars, unitVars >>

\* a step of the process that leaves everything else alone
ProcStep(m) ==
  /\ proc.alive
  /\ proc' = m
  /\ UNCHANGED << env, loaded, serviceVars, unitVars >>

RunLoad ==
  /\ proc.runPc = "init"
  /\ ProcStep(LoadStep(proc, Load(env)))

RunListenMetrics ==
  /\ proc.runPc = "ListenMetrics"
  /\ ProcStep(ListenMetricsStep(proc))

RunStartMetrics ==
  /\ proc.runPc = "StartMetrics"
  /\ ProcStep(StartMetricsStep(proc))

RunListenGRPC ==
  /\ proc.runPc = "ListenGRPC"
  /\ ProcStep(ListenGRPCStep(proc))

RunBuildInterceptors ==
  /\ proc.runPc = "BuildInterceptors"
  /\ \E built \in BOOLEAN : ProcStep(BuildInterceptorsStep(proc, built))

RunNewServer ==
  /\ proc.runPc = "NewServer"
  /\ \E tls \in TLSErrors : ProcStep(NewServerStep(proc, tls))

RunGoShutdown ==
  /\ proc.runPc = "GoShutdown"
  /\ ProcStep(GoShutdownStep(proc))

RunServe ==
  /\ proc.runPc = "Serve"
  /\ ProcStep(ServeStep(proc))

RunServeReturn ==
  /\ proc.runPc = "Serving"
  /\ proc.grpcSrv = "stopped"
  /\ ProcStep(ServeReturnStep(proc))

\* the next deferred call of a return of run
RunDefer ==
  /\ proc.runPc = "defer"
  /\ ProcStep(DeferStep(proc))

\* the deferred metricsSrv.Close() has waited and returns
RunCloseReturn ==
  /\ proc.runPc = "Close"
  /\ HTTPCloseReady(proc)
  /\ ProcStep(CloseReturnStep(proc))

\* the statements of run
RunSteps ==
  \/ RunLoad
  \/ RunListenMetrics
  \/ RunStartMetrics
  \/ RunListenGRPC
  \/ RunBuildInterceptors
  \/ RunNewServer
  \/ RunGoShutdown
  \/ RunServe
  \/ RunServeReturn
  \/ RunDefer
  \/ RunCloseReturn

ShutNotify ==
  /\ proc.shutPc = "Notify"
  /\ ProcStep(NotifyStep(proc))

ShutSelect ==
  /\ proc.shutPc = "select"
  /\ \E c \in SelectReady(proc) : ProcStep(SelectStep(proc, c))

ShutGracefulStopBegin ==
  /\ proc.shutPc = "GracefulStop"
  /\ ProcStep(GracefulStopBeginStep(proc))

ShutGracefulStopEnd ==
  /\ proc.shutPc = "draining"
  /\ Inflight(proc) = 0
  /\ ProcStep(GracefulStopEndStep(proc))

ShutCancel ==
  /\ proc.shutPc = "cancel"
  /\ ProcStep(ShutCancelStep(proc))

\* the statements of the shutdown goroutine
ShutSteps ==
  \/ ShutNotify
  \/ ShutSelect
  \/ ShutGracefulStopBegin
  \/ ShutGracefulStopEnd
  \/ ShutCancel

\* the goroutine of startMetricsServer enters srv.Serve(ln)
MetricsServe ==
  /\ proc.metricsPc = "spawned"
  /\ ProcStep(MetricsServeStep(proc))

\* the accept loop of srv.Serve(ln) ends after Close
MetricsServeLeave ==
  /\ proc.metricsPc = "serving"
  /\ proc.metricsSrv = "closed"
  /\ ProcStep(MetricsLeaveStep(proc))

\* srv.Serve(ln) returns ErrServerClosed after Close
MetricsServeReturn ==
  /\ proc.metricsPc = "left"
  /\ ProcStep(MetricsEndStep(proc))

\* the gRPC server takes up an RPC
RPCAccept ==
  /\ proc.accepting
  /\ Inflight(proc) < MaxInflight
  /\ \E method \in Methods :
       /\ method = "RunTestSuite" =>
            requestsTotal["success"] + requestsTotal["error"]
              + CopiesIn(RPC(method, "received"), proc.rpcs)
              + CopiesIn(RPC(method, "message"), proc.rpcs) < MaxRequests
       /\ ProcStep(AcceptStep(proc, method))

\* the client of an RPC taken up sends its request message
RPCSend ==
  /\ \E r \in BagToSet(proc.rpcs) :
       /\ r.pc = "received"
       /\ r.method # "ServerReflectionInfo"
       /\ ProcStep(SendStep(proc, r))

\* an RPC is served: its message is read, the interceptors run, and the
\* handler of RunTestSuite validates the request and counts it
RPCHandle ==
  /\ proc.alive
  /\ \E r \in BagToSet(proc.rpcs) :
       /\ Servable(r)
       /\ \E byteLen \in ByteLens, token \in BOOLEAN :
            /\ proc' = HandleStep(proc, r, byteLen, token)
            /\ requestsTotal' =
                 IF /\ r.method = "RunTestSuite"
                    /\ Dispatch(proc, r.method, byteLen, token) = "handler"
                 THEN [ requestsTotal EXCEPT ![RPCStatus(byteLen)] = @ + 1 ]
                 ELSE requestsTotal
  /\ UNCHANGED << runAllTests, pc, callVars, prev, env, loaded, unitVars >>

\* a unary RPC ends: its handler has returned, or it never reached it
RPCEnd ==
  /\ \E r \in BagToSet(proc.rpcs) :
       /\ r.pc \in { "refused", "rejected", "handler" }
       /\ ProcStep(EndStep(proc, r))

\* the client of a stream ends it
StreamClose ==
  /\ \E r \in BagToSet(proc.rpcs) :
       /\ r.pc = "streaming"
       /\ ProcStep(EndStep(proc, r))

\* the connections of the draining server have gone away
GoAway ==
  /\ proc.grpcSrv = "draining"
  /\ proc.accepting
  /\ ProcStep(GoAwayStep(proc))

\* cancel() of the context run was called with
CancelParent ==
  /\ proc.runPc # "init"
  /\ ~proc.parentCancelled
  /\ ProcStep([ proc EXCEPT !.parentCancelled = TRUE ])

\* p.Signal(syscall.SIGTERM)
Signal ==
  /\ proc.runPc # "init"
  /\ ~proc.signalled
  /\ ProcStep(SignalStep(proc))

NextRun ==
  \/ SetenvRun
  \/ SetenvAuth
  \/ EnableTLS
  \/ ListenElsewhere
  \/ RunSteps
  \/ ShutSteps
  \/ MetricsServe
  \/ MetricsServeLeave
  \/ MetricsServeReturn
  \/ RPCAccept
  \/ RPCSend
  \/ RPCHandle
  \/ RPCEnd
  \/ StreamClose
  \/ GoAway
  \/ CancelParent
  \/ Signal

\* the server process from the call of run
SpecRun == Init /\ [][NextRun]_vars

\* the server process with the Go scheduler running every goroutine that
\* can run: an RPC whose message is there is served, every unary handler
\* returns, and a draining connection goes away; when a client sends its
\* message and when it ends a stream is up to the client
SpecRunFair ==
  /\ Init
  /\ [][NextRun]_vars
  /\ WF_vars(RunSteps)
  /\ WF_vars(ShutSteps)
  /\ WF_vars(MetricsServe \/ MetricsServeLeave \/ MetricsServeReturn)
  /\ WF_vars(RPCHandle)
  /\ WF_vars(RPCEnd)
  /\ WF_vars(GoAway)

\* p-values handed to calculatePValueUniformity: -0.1, 0.0, 0.1, 0.5, 1.0, 1.1
UniformityPValues ==
  { -100, 0, 100, 500, 1000, 1100 }

\* the longest slice handed to calculatePValueUniformity
MaxPValues == 5

\* chi2 := calculatePValueUniformity(pValues)
CallUniformity ==
  /\ ~uniformity.called
  /\ \E pValues \in SeqsUpTo(UniformityPValues, MaxPValues) :
       uniformity' =
         [ called |-> TRUE, pValues |-> pValues,
           bins |-> IF Len(pValues) = 0 THEN [ b \in {} |-> 0 ]
                    ELSE bins(pValues),
           expectedCount |-> IF Len(pValues) = 0 THEN Float("const", 0, 1)
                             ELSE expectedCount(pValues),
           result |-> calculatePValueUniformity(pValues) ]
  /\ UNCHANGED << serviceVars, env, loaded, proc, intercepted, calls,
                  engine >>

NextUniformity ==
  CallUniformity

\* calculatePValueUniformity on slices of its own
SpecUniformity == Init /\ [][NextUniformity]_vars

\* calls of RunTestSuite followed side by side
MaxCalls == 2

\* RunTestSuite from its entry to the call of runAllTests: a call of its own,
\* which has returned if validation failed
EnterStep(cs, b) ==
  Append([ i \in 1..Len(cs) |->
             [ cs[i] EXCEPT !.overlapped = @ \/ cs[i].pc # "returned" ] ],
         [ pc |-> IF validateRequest(b.byteLen) # NoError THEN "returned"
                  ELSE "engine",
           bitstream |-> b,
           status |-> IF validateRequest(b.byteLen) # NoError THEN "error"
                      ELSE "success",
           overlapped |-> \E i \in 1..Len(cs) : cs[i].pc # "returned",
           interleaved |-> FALSE,
           engine |-> IF validateRequest(b.byteLen) # NoError
                      THEN NoEngineRun ELSE StartEngine(b.content),
           response |-> Nil,
           err |-> validateRequest(b.byteLen) ])

\* another call than c is in the middle of its engine run
MidRun(cs, c) ==
  \E d \in 1..Len(cs) :
    /\ d # c
    /\ cs[d].pc = "engine"
    /\ cs[d].engine.started > 0
    /\ ~Joined(cs[d].engine)

\* the engine run of call c computes its next test, with one list of
\* results that all the engine runs at work write to
TaskStep_SharedResults(cs, c) ==
  LET i == cs[c].engine.started + 1
      e == TaskDoneStep(TaskStartStep(cs[c].engine), i)
  IN  [ d \in 1..Len(cs) |->
          IF d = c
          THEN [ cs[d] EXCEPT !.engine = e,
                              !.interleaved = @ \/ MidRun(cs, c) ]
          ELSE IF cs[d].pc = "engine"
          THEN [ cs[d] EXCEPT !.engine.results[i] = e.results[i] ]
          ELSE cs[d] ]

\* the engine run of call c computes its next test; interleaved tells
\* whether it did so between two tests of another call
TaskStep(cs, c) ==
  LET i == cs[c].engine.started + 1
  IN  [ cs EXCEPT ![c].engine = TaskDoneStep(TaskStartStep(@), i),
                  ![c].interleaved = @ \/ MidRun(cs, c) ]

\* runAllTests of call c returns the joined results; the handler converts
\* them and returns
FinishStep(cs, c) ==
  LET r == AfterEngine(cs[c].bitstream.byteLen, JoinStep(cs[c].engine))
  IN  [ cs EXCEPT ![c].response = r.response, ![c].err = r.err,
                  ![c].pc = "returned" ]

\* a call of RunTestSuite arrives while others may be in progress
ConcurrentEnter ==
  /\ Len(calls) < MaxCalls
  /\ \E b \in Bitstreams :
       /\ calls' = EnterStep(calls, b)
       /\ requestsTotal' =
            [ requestsTotal EXCEPT ![calls'[Len(calls')].status] = @ + 1 ]
  /\ UNCHANGED << runAllTests, pc, callVars, prev, env, loaded, proc, intercepted,
                  uniformity, engine >>

\* the engine run of a call in progress computes its next test
ConcurrentEngine ==
  /\ runAllTests = "nist.RunAllTests"
  /\ \E c \in 1..Len(calls) :
       /\ calls[c].pc = "engine"
       /\ ~Joined(calls[c].engine)
       /\ calls' = TaskStep(calls, c)
  /\ UNCHANGED << serviceVars, env, loaded, proc, intercepted, uniformity,
                  engine >>

\* the engine run of a call in progress has joined: the call converts the
\* results and returns
ConcurrentFinish ==
  /\ \E c \in 1..Len(calls) :
       /\ calls[c].pc = "engine"
       /\ Joined(calls[c].engine)
       /\ calls' = FinishStep(calls, c)
  /\ UNCHANGED << serviceVars, env, loaded, proc, intercepted, uniformity,
                  engine >>

NextConcurrent ==
  \/ ConcurrentEnter
  \/ ConcurrentEngine
  \/ ConcurrentFinish

\* the deployed service with calls in progress side by side
SpecConcurrent == Init /\ [][NextConcurrent]_vars

\* the variables of the configuration and of the process
deployVars ==
  << env, loaded, proc >>

\* resp, err := loggingInterceptor(ctx, req, info, handler)
CallLoggingInterceptor ==
  /\ ~intercepted.called
  /\ \E id \in RequestIDs, req \in Requests, method \in FullMethods,
        handler \in Handlers :
       intercepted' =
         [ called |-> TRUE, ctx |-> [ requestID |-> id ], req |-> req,
           handler |-> handler ]
         @@ loggingInterceptor([ requestID |-> id ], req,
                               [ FullMethod |-> method ], handler)
  /\ UNCHANGED << serviceVars, deployVars, uniformity, calls, engine >>

NextInterceptor ==
  CallLoggingInterceptor

\* loggingInterceptor around the handlers of its tests and their like
SpecInterceptor == Init /\ [][NextInterceptor]_vars

----------------------------------------------------------------------------
(* Properties *)

\* a call has returned
Returned == pc = "returned"

\* a call has returned a response
Responded == pc = "returned" /\ response # Nil

\* the response a call returned
Resp == Deref(response)

\* the i-th result entry of the response
Res(i) == Deref(Resp.Results[i])

\* the errors validateRequest returns
ValidationErrors ==
  { "bitstream cannot be empty", "insufficient bits", "too many bits" }

\* a bitstream of n bytes is empty, has fewer than MinBits bits or more than
\* MaxBits bits (both limits are multiples of 8)
OutOfRange(n) ==
  n = 0 \/ n < MinBits \div 8 \/ n > MaxBits \div 8

\* C1: a returned call was rejected with a validation error exactly when its
\* bitstream is empty, shorter than MinBits bits or longer than MaxBits bits;
\* every length from MinBits/8 to MaxBits/8 bytes, both included, passes
\* validation.
C1_ValidationBounds ==
  Returned =>
    /\ (err \in ValidationErrors) <=> OutOfRange(bitstreamLen)
    /\ (err \in ValidationErrors) => response = Nil
    /\ (MinBits \div 8 <= bitstreamLen /\ bitstreamLen <= MaxBits \div 8)
         => err \notin ValidationErrors

\* the least accepted length was accepted and answered
C1_Witness ==
  Responded /\ bitstreamLen = MinBits \div 8 /\ err = NoError

\* C2: a call returns either a response and no error or no response and an
\* error; a returned response has one non-nil entry for every result the
\* engine produced.
C2_ResponseOrError ==
  Returned =>
    /\ (response # Nil /\ err = NoError) \/ (response = Nil /\ err # NoError)
    /\ response # Nil =>
         /\ Len(Resp.Results) = Len(engineOut.results)
         /\ \A i \in 1..Len(Resp.Results) : Resp.Results[i] # Nil

\* a response built from a skipped and a real result
C2_Witness ==
  /\ Responded
  /\ \E i, j \in 1..Len(engineOut.results) :
       engineOut.results[i].PValue < 0 /\ engineOut.results[j].PValue >= 0

\* C3: a call whose request fails size validation returns the validation
\* error without having invoked runAllTests and without a response.
C3_ValidationBeforeEngine ==
  (Returned /\ OutOfRange(bitstreamLen)) =>
    /\ engineCalls = 0
    /\ engineOut = NoEngineReturn
    /\ response = Nil
    /\ err \in ValidationErrors

\* an over-long request was rejected
C3_Witness ==
  Returned /\ bitstreamLen = (MaxBits \div 8) + 1 /\ err = "too many bits"

\* C4 as claimed: an error is returned only for a precondition violation, and
\* every request that passes validation receives a response.
C4_OnlyValidationErrors ==
  Returned =>
    /\ err # NoError => OutOfRange(bitstreamLen)
    /\ ~OutOfRange(bitstreamLen) => response # Nil

\* C4 amended: an error is returned exactly for a precondition violation or
\* an error returned by runAllTests, which is passed on wrapped; a request
\* that passes validation and whose engine run returns no error receives a
\* response.
C4_ErrorsFromValidationOrEngine ==
  Returned =>
    /\ err # NoError <=>
         (OutOfRange(bitstreamLen) \/ engineOut.err # NoError)
    /\ (~OutOfRange(bitstreamLen) /\ engineOut.err # NoError) =>
         (response = Nil /\ err = "test execution failed: " \o engineOut.err)
    /\ (~OutOfRange(bitstreamLen) /\ engineOut.err = NoError) =>
         response # Nil

\* a valid request whose engine run failed was answered with the error
C4_Witness ==
  /\ Returned
  /\ ~OutOfRange(bitstreamLen)
  /\ engineCalls = 1
  /\ engineOut.err # NoError
  /\ err # NoError

\* C5: in a response, a result with a negative p-value has passed = false,
\* whatever Passed flag the engine supplied.
C5_SkippedNotPassed ==
  Responded =>
    \A i \in 1..Len(Resp.Results) :
      Res(i).PValue < 0 => Res(i).Passed = FALSE

\* the engine marked a result with a negative p-value as passed
C5_Witness ==
  /\ Responded
  /\ \E i \in 1..Len(engineOut.results) :
       engineOut.results[i].PValue < 0 /\ engineOut.results[i].Passed

\* C6: in a response, a result with a negative p-value carries a non-empty
\* warning.  (The handler copies the engine's warning and adds none.)
C6_SkippedHasWarning ==
  Responded =>
    \A i \in 1..Len(Resp.Results) :
      Res(i).PValue < 0 =>
        (Res(i).Warning # Nil /\ Deref(Res(i).Warning) # "")

\* C7: in a response, a result with p-value >= 0 has passed = true exactly
\* when its p-value is at least alpha = 0.01.
C7_PassedIffAlpha ==
  Responded =>
    \A i \in 1..Len(Resp.Results) :
      Res(i).PValue >= 0 => (Res(i).Passed <=> Res(i).PValue >= Alpha)

\* a response with a result just under alpha and a result at alpha
C7_Witness ==
  /\ Responded
  /\ \E i, j \in 1..Len(Resp.Results) :
       /\ Res(i).PValue = 9 /\ ~Res(i).Passed
       /\ Res(j).PValue = 10 /\ Res(j).Passed

\* C8: every result counted in tests_run, that is every p-value handed to the
\* uniformity check, lies in [0,1].
C8_RunPValuesInUnitInterval ==
  Responded =>
    /\ Resp.TestsRun = Len(locals.pValues)
    /\ \A j \in 1..Len(locals.pValues) :
         0 <= locals.pValues[j] /\ locals.pValues[j] <= 1000
    /\ Resp.TestsRun =
         Cardinality({ i \in 1..Len(Resp.Results) :
                         0 <= Res(i).PValue /\ Res(i).PValue <= 1000 })

\* a response that counts results with p-value 0 and 1 next to a skipped one
C8_Witness ==
  /\ Responded
  /\ Resp.TestsRun > 0
  /\ Resp.TestsSkipped > 0
  /\ \E i, j \in 1..Len(locals.pValues) :
       locals.pValues[i] = 0 /\ locals.pValues[j] = 1000

\* C9: tests_run is the number of results with a non-negative p-value,
\* tests_total the number of results, tests_skipped the number of results
\* with a negative p-value, and tests_run + tests_skipped = tests_total.
C9_Counts ==
  Responded =>
    /\ Resp.TestsRun =
         Cardinality({ i \in 1..Len(Resp.Results) : Res(i).PValue >= 0 })
    /\ Resp.TestsTotal = Len(Resp.Results)
    /\ Resp.TestsSkipped =
         Cardinality({ i \in 1..Len(Resp.Results) : Res(i).PValue < 0 })
    /\ Resp.TestsRun + Resp.TestsSkipped = Resp.TestsTotal

\* a response with a skipped result and a real result that did not pass
C9_Witness ==
  /\ Responded
  /\ Resp.TestsSkipped > 0
  /\ \E i \in 1..Len(Resp.Results) : Res(i).PValue >= 0 /\ ~Res(i).Passed

\* the results of the response that ran and passed
RanAndPassed ==
  { i \in 1..Len(Resp.Results) : Res(i).PValue >= 0 /\ Res(i).Passed }

\* C10: overall_pass_rate is 0 when tests_run = 0 and otherwise the number of
\* results with p-value >= 0 and passed = true divided by tests_run; it lies
\* in [0,1]; a result with a negative p-value counts in neither, even when
\* the engine marked it passed.
C10_OverallPassRate ==
  Responded =>
    LET rate == Resp.OverallPassRate
    IN  /\ rate.fn = "const"
        /\ rate.den > 0
        /\ 0 <= rate.num /\ rate.num <= rate.den
        /\ Resp.TestsRun = 0 => rate.num = 0
        /\ Resp.TestsRun > 0 =>
             rate.num * Resp.TestsRun = Cardinality(RanAndPassed) * rate.den

\* a response with a skipped result the engine marked passed and a real result
C10_Witness ==
  /\ Responded
  /\ Resp.TestsRun > 0
  /\ \E i \in 1..Len(engineOut.results) :
       engineOut.results[i].PValue < 0 /\ engineOut.results[i].Passed

\* the results of the response with a real (non-negative) p-value
RealResults ==
  { i \in 1..Len(Resp.Results) : Res(i).PValue >= 0 }

\* C11: nist_compliant is true exactly when tests_run = tests_total, that is
\* exactly when no result has a negative p-value.
C11_NistCompliant ==
  Responded =>
    /\ Resp.NistCompliant <=> (Resp.TestsRun = Resp.TestsTotal)
    /\ Resp.NistCompliant <=>
         (\A i \in 1..Len(Resp.Results) : Res(i).PValue >= 0)

\* a compliant response in which a test that ran did not pass
C11_Witness ==
  /\ Responded
  /\ Resp.NistCompliant
  /\ \E i \in 1..Len(Resp.Results) : ~Res(i).Passed

\* C12: p_value_uniformity_chi2 is exactly -1.0 when fewer than 5 results
\* have a real p-value; otherwise it is GammaIncRegComp(9/2, chi2/2) of a
\* finite chi2 >= 0 over those p-values, a value in [0,1] (the regularized
\* upper incomplete gamma function maps a > 0, x >= 0 into [0,1]).
C12_UniformitySentinel ==
  Responded =>
    LET u == Resp.PValueUniformityChi2
        n == Cardinality(RealResults)
    IN  /\ n < 5 => u = Float("const", -1, 1)
        /\ n >= 5 =>
             /\ u.fn = "GammaIncRegComp"
             /\ u.num >= 0
             /\ u.den = numBins * n

\* a response with exactly five real p-values and a computed uniformity
C12_Witness ==
  /\ Responded
  /\ Cardinality(RealResults) = 5
  /\ Resp.PValueUniformityChi2.fn = "GammaIncRegComp"

\* C14: sample_size_bits of a response is exactly 8 * len(bitstream), a
\* positive int32 of at most MaxBits: the conversion has not wrapped.
C14_SampleSizeBits ==
  Responded =>
    /\ Resp.SampleSizeBits > 0
    /\ Resp.SampleSizeBits <= MaxBits
    /\ Resp.SampleSizeBits % 8 = 0
    /\ Resp.SampleSizeBits \div 8 = bitstreamLen

\* the longest accepted bitstream was answered
C14_Witness ==
  Responded /\ bitstreamLen = MaxBits \div 8
           /\ Resp.SampleSizeBits = MaxBits

\* C13: a response to a bitstream of valid length has exactly 15 result
\* entries, named in the suite's fixed order, and a run on the bitstream of
\* the run before returns what that run returned, the same results (names,
\* order, p-values, flags), the same aggregates and the same error, in
\* whatever order the engine's tasks ended.
C13_FifteenAndDeterministic ==
  /\ Responded =>
       /\ Len(Resp.Results) = 15
       /\ \A i \in 1..Len(Resp.Results) :
            /\ Resp.Results[i] # Nil
            /\ Res(i).Name = TestNames[i]
  /\ (/\ Returned
      /\ prev.kept
      /\ prev.bitstreamLen = bitstreamLen
      /\ prev.content = engine.content)
       => /\ response = prev.response
          /\ err = prev.err

\* a second response to the zero bytes, with tests that ran and tests
\* skipped, after tasks that ended in another order than in the first run
C13_Witness ==
  /\ Responded
  /\ prev.kept
  /\ prev.bitstreamLen = bitstreamLen
  /\ prev.content = engine.content
  /\ prev.reordered # engine.reordered
  /\ prev.response = response
  /\ \E i, j \in 1..Len(Resp.Results) :
       Res(i).PValue < 0 /\ Res(j).PValue >= 0

\* the integer a value of the explored environments is the decimal numeral
\* of; Nil for the empty value and the values that are no numeral
NumeralOf(value) ==
  CASE value = <<"5", "0", "0", "0">> -> Ptr(5000)
    [] value = <<"6", "0", "0", "0">> -> Ptr(6000)
    [] value = <<"0">> -> Ptr(0)
    [] value = <<"-", "1">> -> Ptr(0 - 1)
    [] value = <<"6", "5", "5", "3", "5">> -> Ptr(65535)
    [] value = <<"6", "5", "5", "3", "6">> -> Ptr(65536)
    [] value = <<"7", "0", "0", "0", "0">> -> Ptr(70000)
    [] OTHER -> Nil

\* the boolean a value of the explored environments spells
BooleanOf(value) ==
  CASE value = <<"t", "r", "u", "e">> -> Ptr(TRUE)
    [] value = <<"0">> -> Ptr(FALSE)
    [] OTHER -> Nil

\* the value of key in env, or of default when key is not set, is set to
\* the empty string or (for a typed setting) does not parse
SettingOf(key, parsed, default) ==
  IF env[key] = Nil THEN default
  ELSE IF Deref(env[key]) = << >> THEN default
  ELSE IF parsed[Deref(env[key])] = Nil THEN default
  ELSE Deref(parsed[Deref(env[key])])

\* what Load is to read from env
ExpectedConfig ==
  LET ints == [ v \in EnvValues("GRPC_PORT") \cup EnvValues("METRICS_PORT")
                  |-> NumeralOf(v) ]
      bools == [ v \in EnvValues("AUTH_ENABLED") |-> BooleanOf(v) ]
      strs(key) == [ v \in EnvValues(key) |-> Ptr(v) ]
  IN  [ GRPCPort |-> SettingOf("GRPC_PORT", ints, 9090),
        MetricsPort |-> SettingOf("METRICS_PORT", ints, 9091),
        LogLevel |-> SettingOf("LOG_LEVEL", strs("LOG_LEVEL"),
                               <<"i", "n", "f", "o">>),
        AuthEnabled |-> SettingOf("AUTH_ENABLED", bools, FALSE),
        AuthIssuer |-> SettingOf("AUTH_ISSUER", strs("AUTH_ISSUER"), << >>),
        AuthAudience |->
          SettingOf("AUTH_AUDIENCE", strs("AUTH_AUDIENCE"), << >>),
        AuthJWKSURL |->
          SettingOf("AUTH_JWKS_URL", strs("AUTH_JWKS_URL"), << >>) ]

\* C15: the Config that Load builds, and returns when it returns one, holds
\* for each setting the value of its environment variable when that is set
\* to a non-empty, parseable value, and the default otherwise (9090, 9091,
\* info, false, empty strings); an empty value counts as not set.
C15_EnvOrDefault ==
  loaded.called =>
    /\ loaded.built = ExpectedConfig
    /\ loaded.cfg # Nil => Deref(loaded.cfg) = ExpectedConfig

\* Load returned a Config with a port from the environment, a port that
\* fell back on its default from an unparseable value, and a level that
\* fell back from the empty string
C15_Witness ==
  /\ loaded.called
  /\ loaded.cfg # Nil
  /\ env["GRPC_PORT"] = Ptr(<<"n", "o", "t", "a", "n", "i", "n", "t">>)
  /\ Deref(loaded.cfg).GRPCPort = 9090
  /\ env["METRICS_PORT"] = Ptr(<<"6", "0", "0", "0">>)
  /\ Deref(loaded.cfg).MetricsPort = 6000
  /\ env["LOG_LEVEL"] = Ptr(<< >>)
  /\ Deref(loaded.cfg).LogLevel = <<"i", "n", "f", "o">>

\* c is outside what the service accepts as a configuration
InvalidConfig(c) ==
  \/ c.GRPCPort \notin 1..65535
  \/ c.MetricsPort \notin 1..65535
  \/ c.LogLevel \notin { <<"d", "e", "b", "u", "g">>, <<"i", "n", "f", "o">>,
                         <<"w", "a", "r", "n">>, <<"e", "r", "r", "o", "r">> }
  \/ c.AuthEnabled /\ (c.AuthIssuer = << >> \/ c.AuthAudience = << >>)

\* C16: Validate returns an error exactly when a port is outside 1..65535,
\* the log level is none of debug/info/warn/error, or authentication is
\* enabled with an empty issuer or audience; it leaves the Config as it was.
C16_ValidateExactly ==
  loaded.called =>
    /\ loaded.validated.err # NoError <=> InvalidConfig(loaded.built)
    /\ loaded.validated.c = loaded.built

\* Validate accepted a Config at the upper port limit with authentication
\* enabled
C16_Witness ==
  /\ loaded.called
  /\ loaded.validated.err = NoError
  /\ loaded.built.GRPCPort = 65535
  /\ loaded.built.AuthEnabled

\* C17: Load returns either a Config that Validate accepts and a nil error,
\* or a nil Config and a non-nil error.
C17_ConfigOrError ==
  loaded.called =>
    \/ /\ loaded.cfg # Nil
       /\ loaded.err = NoError
       /\ ~InvalidConfig(Deref(loaded.cfg))
    \/ /\ loaded.cfg = Nil
       /\ loaded.err # NoError

\* Load refused GRPC_PORT=0
C17_Witness ==
  /\ loaded.called
  /\ env["GRPC_PORT"] = Ptr(<<"0">>)
  /\ loaded.cfg = Nil
  /\ loaded.err # NoError

\* run is serving with its signal handler installed, and its context has
\* been cancelled or a signal has been relayed to it
ShutdownRequested ==
  /\ proc.alive
  /\ proc.runPc = "Serving"
  /\ proc.notified
  /\ proc.parentCancelled \/ proc.sigChan > 0

\* run has returned nil with the gRPC server stopped and no RPC cut off
StoppedGracefully ==
  /\ proc.runPc = "done"
  /\ proc.runErr = NoError
  /\ proc.grpcSrv = "stopped"
  /\ Inflight(proc) = 0

\* C18: when run is serving and its context is cancelled, or SIGTERM or
\* Interrupt is relayed to it, the gRPC server is stopped gracefully and run
\* eventually returns nil. GracefulStop waits for every RPC the server
\* holds: with a stream its client keeps open, or a unary RPC whose message
\* its client does not send, run does not return.
C18_GracefulShutdown ==
  ShutdownRequested ~> StoppedGracefully

\* C19: if configuration loading fails, run returns a non-nil error and has
\* opened no listener, started no metrics server and created no gRPC server.
C19_ConfigErrorFirst ==
  (proc.runPc # "init" /\ InvalidConfig(ExpectedConfig)) =>
    /\ proc.runPc = "done"
    /\ proc.runErr # NoError
    /\ proc.metricsLn = "none"
    /\ proc.grpcLn = "none"
    /\ proc.metricsSrv = "none"
    /\ proc.metricsPc = "none"
    /\ proc.grpcSrv = "none"

\* run has returned with GRPC_PORT=-1
C19_Witness ==
  /\ proc.runPc = "done"
  /\ env["GRPC_PORT"] = Ptr(<<"-", "1">>)
  /\ proc.runErr # NoError

\* the metrics port of the environment can be bound and the gRPC port cannot:
\* a test holds it, or it is the metrics port
GRPCPortInUse ==
  /\ ~InvalidConfig(ExpectedConfig)
  /\ ExpectedConfig.MetricsPort \notin proc.busy
  /\ \/ ExpectedConfig.GRPCPort \in proc.busy
     \/ ExpectedConfig.GRPCPort = ExpectedConfig.MetricsPort

\* C20: if the gRPC port cannot be bound, run returns a non-nil error, gRPC
\* is never served, and the metrics server run started is closed when run
\* has returned.
C20_PortInUse ==
  GRPCPortInUse =>
    /\ ~proc.grpcServed
    /\ proc.grpcSrv = "none"
    /\ proc.runPc \notin { "BuildInterceptors", "NewServer", "GoShutdown",
                           "Serve", "Serving" }
    /\ proc.runPc = "done" =>
         /\ proc.runErr # NoError
         /\ proc.metricsSrv = "closed"

\* run has returned because a test held the gRPC port, before the metrics
\* goroutine had entered Serve
C20_Witness ==
  /\ GRPCPortInUse
  /\ ExpectedConfig.GRPCPort \in proc.busy
  /\ proc.runPc = "done"
  /\ proc.metricsSrv = "closed"
  /\ proc.metricsPc = "spawned"

\* what the handler of the explored calls returns for a request id and a
\* request
HandlerReturns(handler, id, req) ==
  CASE handler = "test response" -> << Ptr("test response"), NoError >>
    [] handler = "handler error" -> << Nil, "handler error" >>
    [] handler = "echo" -> << Ptr(req), NoError >>
    [] handler = "request id" -> << Ptr(id), NoError >>
    [] handler = "partial" -> << Ptr("partial response"), "handler error" >>
    [] handler = "nothing" -> << Nil, NoError >>

\* C21: loggingInterceptor calls the wrapped handler exactly once, with the
\* context and the request it was given, and returns exactly the response
\* and the error the handler returned, on success and on error.
C21_InterceptorTransparent ==
  intercepted.called =>
    /\ intercepted.handlerCalls =
         << [ ctx |-> intercepted.ctx, req |-> intercepted.req ] >>
    /\ << intercepted.resp, intercepted.err >> =
         HandlerReturns(intercepted.handler, intercepted.ctx.requestID,
                        intercepted.req)

\* the interceptor passed on a response together with an error
C21_Witness ==
  /\ intercepted.called
  /\ intercepted.handler = "partial"
  /\ intercepted.resp = Ptr("partial response")
  /\ intercepted.err = "handler error"
  /\ intercepted.logged.level = "error"

\* the p-values of the call inside [0,1]
ValidPValues ==
  { j \in 1..Len(uniformity.pValues) :
      uniformity.pValues[j] >= 0 /\ uniformity.pValues[j] <= 1000 }

\* the p-values of the call that fall into the b-th of ten equal bins, 1.0
\* counted with the last
InBin(b) ==
  { j \in ValidPValues :
      \/ b * 100 <= uniformity.pValues[j]
           /\ uniformity.pValues[j] < (b + 1) * 100
      \/ b = 9 /\ uniformity.pValues[j] = 1000 }

\* C22: calculatePValueUniformity sorts the p-values inside [0,1] into ten
\* equal bins, 0.0 into the first and 1.0 into the last, ignores the others,
\* and takes as expected count per bin the number of valid values divided
\* by 10.
C22_ExpectedFromValid ==
  (uniformity.called /\ Len(uniformity.pValues) > 0) =>
    /\ \A b \in 0..9 : uniformity.bins[b] = Cardinality(InBin(b))
    /\ uniformity.expectedCount.num * 10
         = Cardinality(ValidPValues) * uniformity.expectedCount.den

\* C23: the response lists the engine's results in the engine's order: as
\* many entries as runAllTests returned, the i-th with the name and the
\* p-value of the i-th result, skipped or not.
C23_OrderPreserved ==
  Responded =>
    /\ Len(Resp.Results) = Len(engineOut.results)
    /\ \A i \in 1..Len(engineOut.results) :
         /\ Resp.Results[i] # Nil
         /\ Res(i).Name = engineOut.results[i].Name
         /\ Res(i).PValue = engineOut.results[i].PValue

\* the response to the substituted engine's skipped test followed by its
\* valid test
C23_Witness ==
  /\ Responded
  /\ Len(engineOut.results) = 2
  /\ engineOut.results[1].Name = "SkippedTest"
  /\ engineOut.results[2].Name = "ValidTest"
  /\ Res(1).PValue < 0
  /\ Res(2).Name = "ValidTest"

\* key is set to value in env
IsSet(key, value) ==
  env[key] = Ptr(value)

\* C24: an integer or boolean variable set to something unparseable yields
\* the default and no error (GRPC_PORT=notanint loads as 9090 and, with
\* nothing else wrong, Load succeeds), whereas a parseable value out of
\* range (GRPC_PORT=0 or -1) is kept and makes Load fail.
C24_UnparseableVsOutOfRange ==
  loaded.called =>
    /\ IsSet("GRPC_PORT", <<"n", "o", "t", "a", "n", "i", "n", "t">>) =>
         /\ loaded.built.GRPCPort = 9090
         /\ (\A key \in EnvKeys \ { "GRPC_PORT" } : env[key] = Nil) =>
              loaded.cfg # Nil /\ loaded.err = NoError
    /\ IsSet("METRICS_PORT", <<"1", "2", "x">>) =>
         loaded.built.MetricsPort = 9091
    /\ IsSet("AUTH_ENABLED", <<"y", "e", "s">>) =>
         ~loaded.built.AuthEnabled
    /\ IsSet("GRPC_PORT", <<"0">>) =>
         loaded.built.GRPCPort = 0 /\ loaded.cfg = Nil /\ loaded.err # NoError
    /\ IsSet("GRPC_PORT", <<"-", "1">>) =>
         /\ loaded.built.GRPCPort = 0 - 1
         /\ loaded.cfg = Nil
         /\ loaded.err # NoError
    /\ IsSet("METRICS_PORT", <<"7", "0", "0", "0", "0">>) =>
         /\ loaded.built.MetricsPort = 70000
         /\ loaded.cfg = Nil
         /\ loaded.err # NoError

\* Load succeeded with GRPC_PORT=notanint and AUTH_ENABLED=yes, both read as
\* their defaults
C24_Witness ==
  /\ loaded.called
  /\ IsSet("GRPC_PORT", <<"n", "o", "t", "a", "n", "i", "n", "t">>)
  /\ IsSet("AUTH_ENABLED", <<"y", "e", "s">>)
  /\ loaded.cfg # Nil
  /\ Deref(loaded.cfg).GRPCPort = 9090
  /\ ~Deref(loaded.cfg).AuthEnabled

\* C26: a call of RunTestSuite increments requests_total exactly once, under
\* "error" exactly when the request fails validation and under "success"
\* otherwise, also when the engine then returns an error; nothing else
\* changes the counter.
C26_CountedOnce ==
  [][ IF pc = "idle" /\ pc' = "returned"
      THEN requestsTotal' =
             [ requestsTotal EXCEPT
                 ![IF OutOfRange(bitstreamLen') THEN "error"
                   ELSE "success"] = @ + 1 ]
      ELSE requestsTotal' = requestsTotal ]_vars

\* a call the engine failed on has returned its error and was counted as a
\* success
C26_Witness ==
  /\ Returned
  /\ engineCalls = 1
  /\ engineOut.err # NoError
  /\ err # NoError
  /\ requestsTotal = [ status \in { "success", "error" } |->
                         IF status = "success" THEN 1 ELSE 0 ]

\* C27: a cancellation or a signal that the shutdown goroutine acts on, also
\* one it acts on before grpcServer.Serve has begun, makes run return nil:
\* whenever run has returned after a requested shutdown, its error is nil.
C27_ShutdownBeforeServe ==
  (/\ proc.alive
   /\ proc.runPc = "done"
   /\ proc.shutdownBy # "none") => proc.runErr = NoError

\* C28: when run has returned, every listener it opened is closed or is owned
\* by a server that has been stopped: the metrics listener by the metrics
\* server, the gRPC listener by the gRPC server that served on it.
C28_NoListenerLeftOpen ==
  proc.runPc = "done" =>
    /\ proc.metricsLn = "open" => proc.metricsSrv = "closed"
    /\ proc.grpcLn = "open" => proc.grpcServed /\ proc.grpcSrv = "stopped"

\* what RunTestSuite returns for a bitstream when the call is the only one:
\* the validation error, or the response built from what the engine
\* computes on that bitstream
Alone(b) ==
  IF OutOfRange(b.byteLen)
  THEN [ response |-> Nil, err |-> validateRequest(b.byteLen) ]
  ELSE LET r == AfterEngine(b.byteLen, NistRunOn(b.content))
       IN  [ response |-> r.response, err |-> r.err ]

====
